---- MODULE Spec2Model ----
(***************************************************************************)
(* The tree walker Dizzy of src/atopile/model2/datamodel1.py: one action   *)
(* per visit handler, acting on the walker's current scope (self.scope),   *)
(* the heap of Objects the handlers create, and the built-in classes.      *)
(*                                                                         *)
(* Scope (scope2.py), types and errors are imported by datamodel1.py; the  *)
(* operations of Scope and of the classes (lookup, contains, define,       *)
(* append_anon, Scope(entity), make_instance, is_subclass_of, the built-in *)
(* classes) follow sections 4.1 and 4.2 of the specification.  Everything  *)
(* else follows the handlers' code.  A raised exception ends the walk.     *)
(***************************************************************************)
EXTENDS Integers, Sequences, FiniteSets, TLC

VARIABLES
    locals,     \* the names bound in self.scope (name -> value)
    anon,       \* the anonymous members appended to self.scope
    objs,       \* heap of Objects: id -> [type_, locals_]
    classes,    \* class name -> [supers, locals_]
    err,        \* the exception that unwound the walk, "none" while walking
    returned,   \* what visitFile_input returned, NoObject before
    last,       \* the statement the walker visited last
    nstmts      \* number of statements visited

vars == <<locals, anon, objs, classes, err, returned, last, nstmts>>

(***************************** bounds **************************************)
MaxStmts == 2

\* Names a source file declares (visitName); none is a built-in class name.
Names == {"a", "b"}

(*************************** values ****************************************)
NotFound == [kind |-> "NotFound"]
NoObject == [kind |-> "None"]
EmptyMap == [n \in {} |-> NotFound]

ObjectVal(i) == [kind |-> "Object", id |-> i]
ClassVal(c) == [kind |-> "Class", name |-> c]
PrimVal(ty, v) == [kind |-> "Prim", ty |-> ty, v |-> v]
Attribute(t, v) == [kind |-> "Attribute", type_ |-> t, value |-> v]

\* type_ of an Attribute made from a Class: the Python type types.Class itself
PyClassType == "types.Class"

\* Built-in classes: Component's chain includes Module; Pin and Signal are
\* Interface subtypes.
BuiltinClasses ==
    [c \in {"Module", "Component", "Pin", "Signal", "Interface", "Link"} |->
        [supers |-> CASE c = "Component" -> <<"Module">>
                      [] c \in {"Pin", "Signal"} -> <<"Interface">>
                      [] OTHER -> <<>>,
         locals_ |-> EmptyMap]]

ClassNames == DOMAIN BuiltinClasses

Range(s) == {s[i] : i \in DOMAIN s}

Bind(m, n, v) == [k \in DOMAIN m \cup {n} |-> IF k = n THEN v ELSE m[k]]

(********************** the walker's state as a value **********************)
Cur == [locals |-> locals, anon |-> anon, objs |-> objs, classes |-> classes]

Ok(S, v) == [err |-> "none", st |-> S, val |-> v]
Fail(S, e) == [err |-> e, st |-> S, val |-> NotFound]

(***************************** Scope ***************************************)
SelfScope == [root |-> "self"]

\* Scope(entity): a scope rooted at an Object or a Class, over its members
ScopeOf(v) ==
    IF v.kind = "Object" THEN [root |-> "obj", id |-> v.id]
    ELSE [root |-> "class", name |-> v.name]

ScopeLocals(S, sc) ==
    CASE sc.root = "self" -> S.locals
      [] sc.root = "obj" -> S.objs[sc.id].locals_
      [] sc.root = "class" -> S.classes[sc.name].locals_

\* scope[name]: this scope, then (from the walker's scope) the type registry
Lookup(S, sc, n) ==
    IF n \in DOMAIN ScopeLocals(S, sc) THEN ScopeLocals(S, sc)[n]
    ELSE IF sc.root = "self" /\ n \in DOMAIN S.classes THEN ClassVal(n)
    ELSE NotFound

\* name in scope: mirrors lookup, never fails
Contains(S, sc, n) == Lookup(S, sc, n) # NotFound

\* scope[name] = value: NameConflict when name is defined in this scope
Define(S, sc, n, v) ==
    IF n \in DOMAIN ScopeLocals(S, sc) THEN Fail(S, "NameConflict")
    ELSE CASE sc.root = "self" ->
                Ok([S EXCEPT !.locals = Bind(@, n, v)], v)
           [] sc.root = "obj" ->
                Ok([S EXCEPT !.objs[sc.id].locals_ = Bind(@, n, v)], v)
           [] sc.root = "class" ->
                Ok([S EXCEPT !.classes[sc.name].locals_ = Bind(@, n, v)], v)

append_anon(S, v) == [S EXCEPT !.anon = Append(@, v)]

(************************** Class operations *******************************)
RECURSIVE is_subclass_of(_, _, _)
is_subclass_of(S, c, a) ==
    \/ c = a
    \/ \E s \in Range(S.classes[c].supers) : is_subclass_of(S, s, a)

\* class.make_instance(): a fresh Object of that class
make_instance(S, c) ==
    LET i == Len(S.objs) + 1
    IN Ok([S EXCEPT !.objs = Append(@, [type_ |-> c, locals_ |-> EmptyMap])],
          ObjectVal(i))

\* isinstance(v, types.InterfaceObject)
IsInterfaceObject(S, v) ==
    /\ v.kind = "Object"
    /\ is_subclass_of(S, S.objs[v.id].type_, "Interface")

(**************************** inputs ***************************************)
\* Class names the walked statements refer to
RefClasses == {"Module", "Component", "Pin"}

\* name_or_attr: a name, or a dotted attr
Heads == Names \cup RefClasses
DotHeads == {"a", "Component"}
Paths == {<<h>> : h \in Heads} \cup {<<h, n>> : h \in DotHeads, n \in Names}
\* paths that end in a declared name: what a statement binds
TargetPaths == {p \in Paths : p[Len(p)] \in Names}

Literals == {PrimVal("int", "1"), PrimVal("str", "s"), PrimVal("bool", "true")}

\* assignable: a reference, a new-expression or a literal
Assignables ==
    {[k |-> "ref", path |-> p] : p \in Paths}
    \cup {[k |-> "new", path |-> p] : p \in Paths}
    \cup {[k |-> "lit", lit |-> l] : l \in Literals}

\* connectable: a reference or an inline pin / signal declaration
Connectables ==
    {[k |-> "ref", path |-> p] : p \in Paths}
    \cup {[k |-> "pin", name |-> n] : n \in Names}
    \cup {[k |-> "signal", name |-> n] : n \in Names}

Blocktypes == {"module", "component", "interface"}
NoFrom == <<>>
\* the body of a block definition: nothing, or one pin declaration
Bodies == {<<>>} \cup {<<[k |-> "pin", name |-> n]>> : n \in Names}

(**************************** handlers *************************************)
\* visitBlocktype: the one Object MODULE or COMPONENT
visitBlocktype(S, bt) ==
    CASE bt = "module" -> Ok(S, "Module")
      [] bt = "component" -> Ok(S, "Component")
      [] OTHER -> Fail(S, "AtoCompileError")

\* visitName_or_attr: (scope, name) of the last segment
RECURSIVE Descend(_, _, _)
Descend(S, sc, path) ==
    IF Len(path) = 1
    THEN [err |-> "none", scope |-> sc, name |-> path[1]]
    ELSE LET v == Lookup(S, sc, path[1])
             bad(e) == [err |-> e, scope |-> sc, name |-> path[1]]
         IN IF v = NotFound THEN bad("NameNotFound")
            ELSE IF v.kind \in {"Class", "Object"}
                 THEN Descend(S, ScopeOf(v), Tail(path))
            ELSE IF v.kind = "Attribute" /\ v.type_ \in DOMAIN S.classes
                 THEN Descend(S, ScopeOf(v.value), Tail(path))
            ELSE bad("AtoTypeError")

visitName_or_attr(S, path) == Descend(S, SelfScope, path)

\* scope[name] after visitName_or_attr
Resolve(S, path) ==
    LET r == visitName_or_attr(S, path)
    IN IF r.err # "none" THEN Fail(S, r.err)
       ELSE LET v == Lookup(S, r.scope, r.name)
            IN IF v = NotFound THEN Fail(S, "NameNotFound") ELSE Ok(S, v)

\* a mutant of visitPindef_stmt: no redefinition check
visitPindef_nocheck(S, name) ==
    LET pin == make_instance(S, "Pin")
    IN Ok([pin.st EXCEPT !.locals = Bind(@, name, pin.val)], pin.val)

\* visitPindef_stmt / visitSignaldef_stmt.  Every name of Names is truthy, so
\* the `if not name` branches are not taken.
visitPindef_stmt(S, name) ==
    IF Contains(S, SelfScope, name) THEN Fail(S, "NameConflict")
    ELSE LET pin == make_instance(S, "Pin")
         IN Define(pin.st, SelfScope, name, pin.val)

visitSignaldef_stmt(S, name) ==
    IF Contains(S, SelfScope, name) THEN Fail(S, "NameConflict")
    ELSE LET signal == make_instance(S, "Interface")
         IN Define(signal.st, SelfScope, name, signal.val)

visitNew_stmt(S, path) ==
    LET to_init == Resolve(S, path)
    IN IF to_init.err # "none" THEN to_init
       ELSE IF to_init.val.kind # "Class" THEN Fail(S, "AtoTypeError")
       ELSE make_instance(S, to_init.val.name)

\* visitAssignable: a NUMBER, a string and a boolean all come back as a
\* primitive value
visitAssignable(S, rhs) ==
    CASE rhs.k = "ref" -> Resolve(S, rhs.path)
      [] rhs.k = "new" -> visitNew_stmt(S, rhs.path)
      [] rhs.k = "lit" -> Ok(S, rhs.lit)

\* the match statement of visitAssign_stmt
WrapAttribute(S, x) ==
    CASE x.kind = "Object" -> Attribute(S.objs[x.id].type_, x)
      [] x.kind = "Class" -> Attribute(PyClassType, x)
      [] x.kind = "Attribute" -> Attribute(x.type_, x.value)
      [] x.kind = "Prim" -> Attribute(x.ty, x)

\* a mutant of visitAssign_stmt: the binding replaces whatever was there
visitAssign_overwrite(S, path, rhs) ==
    LET r == visitName_or_attr(S, path)
        a == visitAssignable(S, rhs)
        attr == WrapAttribute(a.st, a.val)
    IN IF r.err # "none" THEN Fail(S, r.err)
       ELSE IF a.err # "none" THEN Fail(S, a.err)
       ELSE CASE r.scope.root = "self" ->
                    Ok([a.st EXCEPT !.locals = Bind(@, r.name, attr)], attr)
              [] r.scope.root = "obj" ->
                    Ok([a.st EXCEPT !.objs[r.scope.id].locals_ =
                                        Bind(@, r.name, attr)], attr)
              [] r.scope.root = "class" ->
                    Ok([a.st EXCEPT !.classes[r.scope.name].locals_ =
                                        Bind(@, r.name, attr)], attr)

visitAssign_stmt(S, path, rhs) ==
    LET r == visitName_or_attr(S, path)
        a == visitAssignable(S, rhs)
    IN IF r.err # "none" THEN Fail(S, r.err)
       ELSE IF a.err # "none" THEN Fail(S, a.err)
       ELSE Define(a.st, r.scope, r.name, WrapAttribute(a.st, a.val))

\* a mutant of visitConnectable: no interface check
visitConnectable_nocheck(S, c) ==
    LET got == CASE c.k = "ref" -> Resolve(S, c.path)
                 [] c.k = "pin" -> visitPindef_stmt(S, c.name)
                 [] c.k = "signal" -> visitSignaldef_stmt(S, c.name)
    IN IF got.err # "none" THEN got
       ELSE IF got.val.kind = "Attribute" THEN Ok(got.st, got.val.value)
       ELSE got

\* visitConnectable: a numerical_pin_ref is looked up in self.scope like a name
visitConnectable(S, c) ==
    LET got == CASE c.k = "ref" -> Resolve(S, c.path)
                 [] c.k = "pin" -> visitPindef_stmt(S, c.name)
                 [] c.k = "signal" -> visitSignaldef_stmt(S, c.name)
        connectable == IF got.val.kind = "Attribute" THEN got.val.value
                       ELSE got.val
    IN IF got.err # "none" THEN got
       ELSE IF ~IsInterfaceObject(got.st, connectable)
            THEN Fail(got.st, "AtoTypeError")
       ELSE Ok(got.st, connectable)

LinkVal(start, end) == [kind |-> "Link", start |-> start, end |-> end]

visitConnect_stmt(S, c0, c1) ==
    LET start == visitConnectable(S, c0)
        end == visitConnectable(start.st, c1)
    IN IF start.err # "none" THEN start
       ELSE IF end.err # "none" THEN end
       ELSE LET link == LinkVal(start.val, end.val)
            IN Ok(append_anon(end.st, link), link)

visitRetype_stmt(S, p0, p1) ==
    LET o == visitName_or_attr(S, p0)
        t == visitName_or_attr(S, p1)
        obj == Lookup(S, o.scope, o.name)
        target == Lookup(S, t.scope, t.name)
    IN IF o.err # "none" THEN Fail(S, o.err)
       ELSE IF t.err # "none" THEN Fail(S, t.err)
       ELSE IF obj = NotFound THEN Fail(S, "NameNotFound")
       ELSE IF obj.kind # "Object" THEN Fail(S, "AtoTypeError")
       ELSE IF target = NotFound THEN Fail(S, "NameNotFound")
       ELSE IF target.kind # "Class" THEN Fail(S, "AtoTypeError")
       ELSE IF ~is_subclass_of(S, target.name, S.objs[obj.id].type_)
            THEN Fail(S, "AtoTypeError")
       ELSE Ok([S EXCEPT !.objs[obj.id].type_ = target.name], obj)

\* visitBlockdef.  Line 192 unpacks the result of visitBlocktype into
\* (default_super, allowed_supers); visitBlocktype returns one Object, which
\* is not iterable, so the unpacking raises Python's TypeError and the rest of
\* the handler (the from clause, make_subclass, new_scope and the walk of the
\* body) is never reached.
visitBlockdef(S, name, bt, from, body) ==
    IF Contains(S, SelfScope, name) THEN Fail(S, "NameConflict")
    ELSE LET b == visitBlocktype(S, bt)
         IN IF b.err # "none" THEN b
            ELSE Fail(S, "TypeError")

visitImport_stmt(S, from_file, path) ==
    LET r == visitName_or_attr(S, path)
        to_import == r.name
    IN IF r.err # "none" THEN Fail(S, r.err)
       ELSE IF from_file = "" THEN Fail(S, "AtoCompileError")
       ELSE IF to_import = "*" THEN Fail(S, "NotImplementedError")
       ELSE IF Contains(S, SelfScope, to_import) THEN Fail(S, "NameConflict")
       ELSE LET v == Lookup(S, r.scope, to_import)
            IN IF v = NotFound THEN Fail(S, "NameNotFound")
               ELSE Define(S, SelfScope, to_import, v)

visitWith_stmt(S) == Fail(S, "NotImplementedError")

\* visitFile_input: the root Object, its locals_ left empty
visitFile_input == [supers |-> <<"Module">>, locals_ |-> EmptyMap]

(***************************** actions *************************************)
Init ==
    /\ locals = EmptyMap
    /\ anon = <<>>
    /\ objs = <<>>
    /\ classes = BuiltinClasses
    /\ err = "none"
    /\ returned = NoObject
    /\ last = [op |-> "start"]
    /\ nstmts = 0

\* A handler ran on a statement: its effects up to the point it returned or
\* raised; an exception unwinds the walk.
Visit(res, l) ==
    /\ locals' = res.st.locals
    /\ anon' = res.st.anon
    /\ objs' = res.st.objs
    /\ classes' = res.st.classes
    /\ err' = res.err
    /\ last' = l
    /\ nstmts' = nstmts + 1
    /\ UNCHANGED returned

Walking == err = "none" /\ returned = NoObject /\ nstmts < MaxStmts

Pindef ==
    /\ Walking
    /\ \E name \in Names :
         Visit(visitPindef_stmt(Cur, name), [op |-> "pindef", name |-> name])

Signaldef ==
    /\ Walking
    /\ \E name \in Names :
         Visit(visitSignaldef_stmt(Cur, name),
               [op |-> "signaldef", name |-> name])

Assign ==
    /\ Walking
    /\ \E path \in TargetPaths, rhs \in Assignables :
         Visit(visitAssign_stmt(Cur, path, rhs),
               [op |-> "assign", path |-> path, rhs |-> rhs])

Connect ==
    /\ Walking
    /\ \E c0 \in Connectables, c1 \in Connectables :
         Visit(visitConnect_stmt(Cur, c0, c1),
               [op |-> "connect", c0 |-> c0, c1 |-> c1])

Retype ==
    /\ Walking
    /\ \E p0 \in Paths, p1 \in Paths :
         Visit(visitRetype_stmt(Cur, p0, p1),
               [op |-> "retype", p0 |-> p0, p1 |-> p1])

Blockdef ==
    /\ Walking
    /\ \E name \in Names, bt \in Blocktypes,
          from \in {NoFrom, <<"Component">>}, body \in Bodies :
         Visit(visitBlockdef(Cur, name, bt, from, body),
               [op |-> "blockdef", name |-> name, bt |-> bt, from |-> from,
                body |-> body, fresh |-> ~Contains(Cur, SelfScope, name)])

Import ==
    /\ Walking
    /\ \E from_file \in {"", "f"}, path \in TargetPaths \cup {<<"*">>} :
         Visit(visitImport_stmt(Cur, from_file, path),
               [op |-> "import", path |-> path, from_file |-> from_file])

With ==
    /\ Walking
    /\ Visit(visitWith_stmt(Cur), [op |-> "with"])

FileInput ==
    /\ err = "none"
    /\ returned = NoObject
    /\ returned' = visitFile_input
    /\ UNCHANGED <<locals, anon, objs, classes, err, last, nstmts>>

Next ==
    \/ Pindef
    \/ Signaldef
    \/ Assign
    \/ Connect
    \/ Retype
    \/ Blockdef
    \/ Import
    \/ With
    \/ FileInput

Spec == Init /\ [][Next]_vars

(***************************** claims **************************************)
\* a step in which the walker visited a statement of kind op
Visited(op) == nstmts' = nstmts + 1 /\ last'.op = op

C2_ShadowingAllowed ==
    ( /\ last.op = "blockdef"
      /\ last.fresh
      /\ last.bt \in {"module", "component"}
      /\ last.from = NoFrom
      /\ last.body # <<>>
      /\ last.body[1].name \in DOMAIN locals )
    => err = "none"

\* C3 (as claimed): for x bound by `x = new B`, the retype `x -> C` with C a
\* subclass of B (reflexively, transitively) succeeds and sets the object's
\* type to C.
C3_RetypeAfterNew ==
    ( /\ last.op = "retype"
      /\ Len(last.p0) = 1 /\ Len(last.p1) = 1
      /\ last.p0[1] \in DOMAIN locals
      /\ locals[last.p0[1]].kind = "Attribute"
      /\ locals[last.p0[1]].value.kind = "Object"
      /\ last.p1[1] \in ClassNames \ DOMAIN locals
      /\ is_subclass_of(Cur, last.p1[1], locals[last.p0[1]].type_) )
    => /\ err = "none"
       /\ objs[locals[last.p0[1]].value.id].type_ = last.p1[1]

\* the operands of a connect statement, read in the state before it
UnwrapAttr(v) == IF v.kind = "Attribute" THEN v.value ELSE v

OperandBound(c) ==
    c.k = "ref" /\ Len(c.path) = 1 /\ c.path[1] \in DOMAIN locals

\* a name bound to an Interface-typed Object, or to an Attribute holding one
OperandInterface(c) ==
    /\ OperandBound(c)
    /\ UnwrapAttr(locals[c.path[1]]).kind = "Object"
    /\ objs[UnwrapAttr(locals[c.path[1]]).id].type_
          \in {"Pin", "Signal", "Interface"}

\* a name bound to an Attribute holding a plain number
OperandNumber(c) ==
    /\ OperandBound(c)
    /\ locals[c.path[1]].kind = "Attribute"
    /\ locals[c.path[1]].value.kind = "Prim"
    /\ locals[c.path[1]].value.ty = "int"

\* an inline declaration of a name not yet defined
OperandFreshDecl(c) == c.k \in {"pin", "signal"} /\ c.name \notin DOMAIN locals

\* C4: a connect statement succeeds only with two Interface-typed endpoints
\* and then appends exactly one Link with those endpoints; two operands that
\* name (or declare) interfaces connect; an operand that is an Attribute
\* holding a number makes the statement fail, with TypeMismatch once the
\* operand before it has resolved, and no Link is appended.
C4_Connect ==
    [][ Visited("connect") =>
        LET c0 == last'.c0
            c1 == last'.c1
            good(c) == OperandInterface(c) \/ OperandFreshDecl(c)
            endpoint(c) == IF c.k = "ref" THEN UnwrapAttr(locals[c.path[1]])
                           ELSE locals'[c.name]
        IN /\ (err' = "none") =>
                /\ Len(anon') = Len(anon) + 1
                /\ SubSeq(anon', 1, Len(anon)) = anon
                /\ anon'[Len(anon')].kind = "Link"
                /\ IsInterfaceObject(Cur', anon'[Len(anon')].start)
                /\ IsInterfaceObject(Cur', anon'[Len(anon')].end)
           /\ (err' # "none") => (anon' = anon)
           /\ ( /\ good(c0) /\ good(c1)
                /\ ~(c0.k # "ref" /\ c1.k # "ref" /\ c0.name = c1.name) )
              => /\ err' = "none"
                 /\ anon' = Append(anon, LinkVal(endpoint(c0), endpoint(c1)))
           /\ (OperandNumber(c0) \/ (good(c0) /\ OperandNumber(c1)))
              => (err' = "AtoTypeError" /\ anon' = anon)
           /\ OperandNumber(c1) => (err' # "none" /\ anon' = anon)
      ]_vars

C4_Witness ==
    /\ last.op = "connect"
    /\ err = "none"
    /\ last.c0.k = "ref"
    /\ Len(anon) = 1
    /\ objs[anon[1].start.id].type_ = "Pin"
    /\ objs[anon[1].end.id].type_ = "Interface"
    /\ anon[1].start # anon[1].end

C6_ReturnedTreeComplete ==
    (returned # NoObject) => (DOMAIN returned.locals_ = DOMAIN locals)

\* C7 (as claimed): once a block definition of a fresh name N has been walked,
\* N is bound in the enclosing scope to the new Class.
C7_BlockBoundAfterBody ==
    ( /\ last.op = "blockdef"
      /\ last.fresh
      /\ last.bt \in {"module", "component"}
      /\ last.from = NoFrom )
    => /\ err = "none"
       /\ last.name \in DOMAIN locals
       /\ locals[last.name].kind = "Class"

\* C8 (as claimed): a block definition is accepted exactly when its superclass
\* is allowed for its block type, and the new Class then has that superclass
\* (the default base without a from clause) in its chain; a `module` block
\* naming Component fails with a TypeError and creates no Class.
C8_SuperclassAccepted ==
    ( /\ last.op = "blockdef"
      /\ last.fresh
      /\ last.bt \in {"module", "component"} )
    => LET base == IF last.bt = "module" THEN "Module" ELSE "Component"
           super == IF last.from = NoFrom THEN base ELSE last.from[1]
       IN IF is_subclass_of(Cur, super, base)
          THEN /\ err = "none"
               /\ last.name \in DOMAIN classes
               /\ super \in Range(classes[last.name].supers)
          ELSE /\ err \in {"AtoTypeError", "TypeError"}
               /\ last.name \notin DOMAIN classes

\* C9 (as claimed): a non-final path segment bound to an Attribute holding an
\* Object or a Class is descended into: resolving the path raises no TypeError.
C9_DescendIntoAttribute ==
    ( /\ last.op = "assign"
      /\ Len(last.path) = 2
      /\ last.rhs.k = "lit"
      /\ last.path[1] \in DOMAIN locals
      /\ locals[last.path[1]].kind = "Attribute"
      /\ locals[last.path[1]].value.kind \in {"Object", "Class"} )
    => err # "AtoTypeError"

\* C10 (as claimed): no statement changes the members or the super chain of a
\* class; the built-in classes are never mutated.
C10_ClassesImmutable == classes = BuiltinClasses

====
